---- MODULE Spec2Model ----
(***************************************************************************)
(* The reservation-and-delivery pipeline of src/main.py: several process   *)
(* instances of the script share one MongoDB collection ("quakes", unique  *)
(* index on "id") and race to claim, render, send and commit the events of *)
(* the earthquake feed.                                                    *)
(*                                                                         *)
(* Time is a shared wall clock counted in ticks (TicksPerMinute ticks per  *)
(* minute).  Every store operation and every external call (feed fetch,    *)
(* render, one Telegram post) is one atomic step of the instance making    *)
(* it; the clock may advance, a minute at a time, between any two steps.   *)
(* Time zero is the launch of instance 1; the other instances are launched *)
(* at most MaxStartDelay minutes later.  Instants within a minute are      *)
(* covered by the parts of C1 and C6 that apply the claim filter to        *)
(* timestamps of every tick.                                               *)
(*                                                                         *)
(* Five specifications share the actions:                                  *)
(*   Spec       two time-boxed instances racing on a feed of one           *)
(*              earthquake (and one entry of another type), undisturbed;   *)
(*   SpecExit   the same, and an instance may be interrupted at any point  *)
(*              (the interpreter then exits through its atexit handler);   *)
(*   SpecBatch  one instance, in either mode, working through a feed of    *)
(*              two earthquakes, with feed requests that may fail and      *)
(*              interrupts;                                                *)
(*   SpecFault  SpecBatch, and the store calls of the commit may raise and  *)
(*              the process may be killed by a signal;                     *)
(*   SpecLive   SpecBatch without interrupts, under weak fairness of the   *)
(*              clock and of the instance.                                 *)
(***************************************************************************)
EXTENDS Integers, Sequences, FiniteSets, TLC

\* ---- bounds of the model ----
TicksPerMinute == 2
MaxMinutes == 5
MaxStartDelay == 0

\* ---- program constants ----
STALE_MINUTES == 3
MAX_RUN_MINUTES == 5
SEND_RETRIES == 5
MAX_FAILURES == 3

Inst == {1, 2}
Ids == {1, 2}
MaxClock == MaxMinutes * TicksPerMinute
MAX_RUN_TIME == MAX_RUN_MINUTES * TicksPerMinute
STALE == STALE_MINUTES * TicksPerMinute

\* Feeds after sorted(), in ascending event time.
FeedOne ==
  <<[id |-> 1, type |-> "earthquake"], [id |-> 0, type |-> "quarry blast"]>>
FeedTwo ==
  <<[id |-> 1, type |-> "earthquake"], [id |-> 0, type |-> "quarry blast"],
    [id |-> 2, type |-> "earthquake"]>>

VARIABLES
  clock,          \* wall clock, in ticks
  feed,           \* the features the feed URL serves
  collection,     \* the store: id -> document
  LOCAL_MODE,     \* per instance: the LOCAL environment variable is set
  pc,             \* per instance: position in the script
  procStartTime,  \* per instance: module-level startTime (line 438)
  retries,        \* per instance: module-level retries (line 446)
  sent_ids,       \* per instance: main()'s sent_ids
  reserved_ids,   \* per instance: main()'s reserved_ids
  startTime,      \* per instance: main()'s startTime (line 332)
  idx,            \* per instance: position of the for loop in the feed
  attempt,        \* per instance: sendToTelegram's attempt
  err,            \* per instance: the exception in flight: the one caught
                  \* by the except branch of line 414, or the one propagating
                  \* out of main()
  sends,          \* history: per id, successful sendPhoto calls (saturates at 2)
  won,            \* history: per id, the times of the (at most two) latest
                  \* successful claims on the claim document of the id; a
                  \* delete or a commit of the document starts it afresh
  holder,         \* history: per id, the instance whose update_one made or
                  \* last took over the claim document of the id (0: none)
  event           \* history: the store operation of the latest step, if any

vars == <<clock, feed, collection, LOCAL_MODE, pc, procStartTime, retries,
          sent_ids, reserved_ids, startTime, idx, attempt, err, sends, won, holder,
          event>>

\* ---- documents ----
Missing == <<>>
NoDoc == [exists |-> FALSE, reserved_at |-> Missing, sentAt |-> Missing]
ClaimDoc(s) == [exists |-> TRUE, reserved_at |-> s, sentAt |-> Missing]
FinalDoc(s) == [exists |-> TRUE, reserved_at |-> Missing, sentAt |-> s]
IsTerminal(d) == d.exists /\ d.sentAt # Missing

\* ---- datetime.isoformat() and string comparison ----
\* A timestamp string is the sequence of its fields.  The whole-minute field
\* stands for the fixed-width date and time fields; the fraction is printed
\* (".ffffff") only when it is not zero; "+00:00" ends the string.
CharPlus == 43
CharDot == 46
isoformat(t) ==
  IF t % TicksPerMinute = 0
    THEN <<t \div TicksPerMinute, CharPlus>>
    ELSE <<t \div TicksPerMinute, CharDot, t % TicksPerMinute, CharPlus>>

\* $lt on two strings: lexicographic order.
RECURSIVE StrLess(_, _)
StrLess(a, b) ==
  IF b = <<>> THEN FALSE
  ELSE IF a = <<>> THEN TRUE
  ELSE IF Head(a) = Head(b) THEN StrLess(Tail(a), Tail(b))
  ELSE Head(a) < Head(b)

\* ---- store operations ----
\* Mutant of LoadSentIds: find({}, {"id": 1}).
LoadSentIds_All(coll) == {e \in Ids : coll[e].exists}

\* find({"sentAt": {"$exists": True}}, {"id": 1})
LoadSentIds(coll) == {e \in Ids : IsTerminal(coll[e])}

\* Mutants of ClaimFilter: the staleness test against now instead of
\* now - 3 minutes; no sentAt test; no staleness branch.
ClaimFilter_NoWindow(d, t) ==
  /\ d.exists
  /\ d.sentAt = Missing
  /\ \/ d.reserved_at = Missing
     \/ StrLess(d.reserved_at, isoformat(t))
ClaimFilter_NoSentAtTest(d, t) ==
  /\ d.exists
  /\ \/ d.reserved_at = Missing
     \/ StrLess(d.reserved_at, isoformat(t - STALE))
ClaimFilter_NoStaleBranch(d, t) ==
  /\ d.exists
  /\ d.sentAt = Missing
  /\ d.reserved_at = Missing

\* The filter of the claiming update_one applied to the document of the id.
ClaimFilter(d, t) ==
  /\ d.exists
  /\ d.sentAt = Missing
  /\ \/ d.reserved_at = Missing
     \/ StrLess(d.reserved_at, isoformat(t - STALE))

\* update_one(filter, {"$set": {"reserved_at": now}}, upsert=True) under the
\* unique index on "id": the outcome and the document afterwards.
UpdateOne(d, t) ==
  IF ClaimFilter(d, t)
    THEN [outcome |-> "matched", doc |-> [d EXCEPT !.reserved_at = isoformat(t)]]
  ELSE IF ~d.exists
    THEN [outcome |-> "upserted", doc |-> ClaimDoc(isoformat(t))]
  ELSE [outcome |-> "DuplicateKeyError", doc |-> d]

\* Mutant of DeleteUnsent: delete_one({"id": id}).
DeleteUnsent_Any(d) == NoDoc

\* delete_one({"id": id, "sentAt": {"$exists": False}})
DeleteUnsent(d) == IF d.exists /\ d.sentAt = Missing THEN NoDoc ELSE d

\* Mutant of ReplaceOne: update_one({"id": id}, {"$set": full_data},
\* upsert=True), which keeps the fields full_data does not have.
ReplaceOne_Set(d, t) == [d EXCEPT !.exists = TRUE, !.sentAt = isoformat(t)]

\* replace_one({"id": id}, full_data, upsert=True)
ReplaceOne(d, t) == FinalDoc(isoformat(t))

\* Mutant of FindSent: the re-check never finds a record.
FindSent_Never(coll, e) == FALSE

\* find_one({"id": id, "sentAt": {"$exists": True}}) is not None
FindSent(coll, e) == coll[e].exists /\ coll[e].sentAt # Missing

\* cleanup_reserved(reserved_ids)
CleanupReserved(coll, rids) ==
  [e \in Ids |-> IF e \in rids THEN DeleteUnsent(coll[e]) ELSE coll[e]]

\* ---- helpers of the per-instance control flow ----
Cur(i) == feed[idx[i]].id

Set(f, i, v) == [f EXCEPT ![i] = v]

\* Mutant of TimeUp: the budget is never found spent.
TimeUp_Never(i, since) == FALSE

\* The time test of lines 429 and 448.
TimeUp(i, since) == ~LOCAL_MODE[i] /\ clock - since >= MAX_RUN_TIME

\* ---- the histories ----
NoEvent == [op |-> "none", inst |-> 0, id |-> 0, before |-> [e \in Ids |-> NoDoc]]
Wrote(o, i, e) == [op |-> o, inst |-> i, id |-> e, before |-> collection]

\* won after the documents of the ids in gone were deleted or committed.
Forget(gone) == [e \in Ids |-> IF e \in gone THEN <<>> ELSE won[e]]
Unhold(gone) == [e \in Ids |-> IF e \in gone THEN 0 ELSE holder[e]]
Deleted(rids) == {e \in rids : collection[e].exists /\ ~IsTerminal(collection[e])}

TypeOK ==
  /\ clock \in 0..MaxClock
  /\ pc \in [Inst -> {"start", "top", "fetch", "iter", "claim", "render", "send",
                      "commit", "release", "error", "finished"}]
  /\ retries \in [Inst -> 0..MAX_FAILURES]
  /\ idx \in [Inst -> 0..(Len(feed) + 1)]
  /\ attempt \in [Inst -> 0..(SEND_RETRIES - 1)]
  /\ sends \in [Ids -> 0..2]
  /\ \A e \in Ids : Len(won[e]) <= 2
  /\ holder \in [Ids -> Inst \cup {0}]
  /\ \A i \in Inst : reserved_ids[i] \subseteq Ids /\ sent_ids[i] \subseteq Ids

\* The state after the interpreter loaded the module in every instance: an
\* empty collection and no instance past line 437.
InitWith(f, modes) ==
  /\ clock = 0
  /\ feed = f
  /\ collection = [e \in Ids |-> NoDoc]
  /\ LOCAL_MODE \in modes
  /\ pc = [i \in Inst |-> "start"]
  /\ procStartTime = [i \in Inst |-> 0]
  /\ retries = [i \in Inst |-> 0]
  /\ sent_ids = [i \in Inst |-> {}]
  /\ reserved_ids = [i \in Inst |-> {}]
  /\ startTime = [i \in Inst |-> 0]
  /\ idx = [i \in Inst |-> 0]
  /\ attempt = [i \in Inst |-> 0]
  /\ err = [i \in Inst |-> "none"]
  /\ sends = [e \in Ids |-> 0]
  /\ won = [e \in Ids |-> <<>>]
  /\ holder = [e \in Ids |-> 0]
  /\ event = NoEvent

Init == InitWith(FeedOne, {[i \in Inst |-> FALSE]})

InitBatch == InitWith(FeedTwo, [Inst -> BOOLEAN])

\* ---- actions ----

\* Time passes.
Tick ==
  /\ clock + TicksPerMinute <= MaxClock
  /\ clock' = clock + TicksPerMinute
  /\ event' = NoEvent
  /\ UNCHANGED <<feed, collection, LOCAL_MODE, pc, procStartTime, retries,
                 sent_ids, reserved_ids, startTime, idx, attempt, err,
                 sends, won, holder>>

\* The script starts: startTime = time.time(), retries = 0 (lines 438-446).
Start(i) ==
  /\ pc[i] = "start"
  /\ clock <= (IF i = 1 THEN 0 ELSE MaxStartDelay * TicksPerMinute)
  /\ procStartTime' = Set(procStartTime, i, clock)
  /\ retries' = Set(retries, i, 0)
  /\ pc' = Set(pc, i, "top")
  /\ event' = NoEvent
  /\ UNCHANGED <<clock, feed, collection, LOCAL_MODE, sent_ids, reserved_ids,
                 startTime, idx, attempt, err, sends, won, holder>>

\* The interpreter exits: the atexit handler cleanup() runs cleanup_reserved
\* on main()'s reserved_ids (lines 297-312).  The locals are dead afterwards.
Exit(i) ==
  /\ pc' = Set(pc, i, "finished")
  /\ collection' = CleanupReserved(collection, reserved_ids[i])
  /\ won' = Forget(Deleted(reserved_ids[i]))
  /\ holder' = Unhold(Deleted(reserved_ids[i]))
  /\ event' = IF reserved_ids[i] = {} THEN NoEvent
              ELSE Wrote("cleanup", i, CHOOSE e \in reserved_ids[i] : TRUE)
  /\ idx' = Set(idx, i, 0)
  /\ startTime' = Set(startTime, i, 0)
  /\ sent_ids' = Set(sent_ids, i, {})
  /\ attempt' = Set(attempt, i, 0)
  /\ err' = Set(err, i, "none")
  /\ UNCHANGED reserved_ids

\* The while test of line 448.  When it ends the loop the script finishes;
\* otherwise main() is entered: a fresh reserved_ids and the sent ids loaded
\* from the store (lines 307-316).
LoopTop(i) ==
  /\ pc[i] = "top"
  /\ IF TimeUp(i, procStartTime[i])
       THEN Exit(i)
       ELSE /\ pc' = Set(pc, i, "fetch")
            /\ reserved_ids' = Set(reserved_ids, i, {})
            /\ sent_ids' = Set(sent_ids, i, LoadSentIds(collection))
            /\ event' = NoEvent
            /\ UNCHANGED <<collection, won, holder, idx, startTime, attempt, err>>
  /\ UNCHANGED <<clock, feed, LOCAL_MODE, procStartTime, retries, sends>>

\* SESSION.get(feed).json()["features"], sorted; startTime = time.time()
\* (lines 322-332).
Fetch(i) ==
  /\ pc[i] = "fetch"
  /\ startTime' = Set(startTime, i, clock)
  /\ idx' = Set(idx, i, 1)
  /\ pc' = Set(pc, i, "iter")
  /\ event' = NoEvent
  /\ UNCHANGED <<clock, feed, collection, LOCAL_MODE, procStartTime, retries,
                 sent_ids, reserved_ids, attempt, err, sends, won, holder>>

\* The feed request raises (line 322): the exception leaves main().
FetchFails(i) ==
  /\ pc[i] = "fetch"
  /\ pc' = Set(pc, i, "error")
  /\ err' = Set(err, i, "fetch")
  /\ event' = NoEvent
  /\ UNCHANGED <<clock, feed, collection, LOCAL_MODE, procStartTime, retries,
                 sent_ids, reserved_ids, startTime, idx, attempt, sends,
                 won, holder>>

\* main() returns to the while loop: its locals are dead.
ReturnFromMain(i) ==
  /\ pc' = Set(pc, i, "top")
  /\ idx' = Set(idx, i, 0)
  /\ startTime' = Set(startTime, i, 0)
  /\ sent_ids' = Set(sent_ids, i, {})

\* One pass of the for loop up to the claim (lines 334-362): the end of the
\* feed, the type test, the sent_ids test and the find_one re-check.
NextCandidate(i) ==
  /\ pc[i] = "iter"
  /\ IF idx[i] > Len(feed)
       THEN ReturnFromMain(i)
     ELSE IF feed[idx[i]].type # "earthquake" \/ Cur(i) \in sent_ids[i]
       THEN /\ idx' = Set(idx, i, idx[i] + 1)
            /\ UNCHANGED <<pc, startTime, sent_ids>>
     ELSE IF FindSent(collection, Cur(i))
       THEN /\ sent_ids' = Set(sent_ids, i, sent_ids[i] \cup {Cur(i)})
            /\ idx' = Set(idx, i, idx[i] + 1)
            /\ UNCHANGED <<pc, startTime>>
     ELSE /\ pc' = Set(pc, i, "claim")
          /\ UNCHANGED <<idx, startTime, sent_ids>>
  /\ event' = IF /\ idx[i] <= Len(feed)
                 /\ feed[idx[i]].type = "earthquake"
                 /\ Cur(i) \notin sent_ids[i]
               THEN Wrote("find_one", i, Cur(i))
               ELSE NoEvent
  /\ UNCHANGED <<clock, feed, collection, LOCAL_MODE, procStartTime, retries,
                 reserved_ids, attempt, err, sends, won, holder>>

\* Mutant of EndOfPass: the pass ends the loop.
EndOfPass_Breaks(i, sids) == ReturnFromMain(i)

\* The end of a pass that did not `continue` (lines 427-434), with sids the
\* pass's sent_ids: the time test, then the next candidate or the break.
EndOfPass(i, sids) ==
  IF TimeUp(i, startTime[i])
    THEN ReturnFromMain(i)
    ELSE /\ pc' = Set(pc, i, "iter")
         /\ idx' = Set(idx, i, idx[i] + 1)
         /\ sent_ids' = Set(sent_ids, i, sids)
         /\ UNCHANGED startTime

\* now = datetime.now(utc) and the claiming update_one (lines 364-381 and
\* 421-427).  A DuplicateKeyError is raised outside the try block and leaves
\* main().
TryClaim(i) ==
  /\ pc[i] = "claim"
  /\ LET e == Cur(i)
         r == UpdateOne(collection[e], clock)
     IN /\ collection' = [collection EXCEPT ![e] = r.doc]
        /\ event' = Wrote("update_one", i, e)
        /\ IF r.outcome = "DuplicateKeyError"
             THEN /\ pc' = Set(pc, i, "error")
                  /\ err' = Set(err, i, "DuplicateKeyError")
                  /\ UNCHANGED <<reserved_ids, won, holder, idx, startTime, sent_ids>>
           ELSE IF r.outcome \in {"matched", "upserted"}
             THEN /\ reserved_ids' = Set(reserved_ids, i, reserved_ids[i] \cup {e})
                  /\ won' = [won EXCEPT ![e] = IF @ = <<>> THEN <<clock>>
                                               ELSE <<@[Len(@)], clock>>]
                  /\ holder' = [holder EXCEPT ![e] = i]
                  /\ pc' = Set(pc, i, "render")
                  /\ UNCHANGED <<err, idx, startTime, sent_ids>>
           ELSE /\ EndOfPass(i, sent_ids[i])
                /\ UNCHANGED <<err, reserved_ids, won, holder>>
  /\ UNCHANGED <<clock, feed, LOCAL_MODE, procStartTime, retries, attempt, sends>>

\* plot_offline_map (line 387): returns or raises.
Render(i) ==
  /\ pc[i] = "render"
  /\ \E ok \in BOOLEAN :
       /\ pc' = Set(pc, i, IF ok THEN "send" ELSE "release")
       /\ err' = Set(err, i, IF ok THEN "none" ELSE "render")
  /\ attempt' = Set(attempt, i, 0)
  /\ event' = NoEvent
  /\ UNCHANGED <<clock, feed, collection, LOCAL_MODE, procStartTime, retries,
                 sent_ids, reserved_ids, startTime, idx, sends, won, holder>>

\* Mutant of SendAttempt: while attempt <= retries.
SendAttempt_OneMore(i) ==
  /\ pc[i] = "send"
  /\ \E ok \in BOOLEAN :
       IF ok
         THEN /\ sends' = [sends EXCEPT ![Cur(i)] = IF @ < 2 THEN @ + 1 ELSE @]
              /\ pc' = Set(pc, i, "commit")
              /\ attempt' = Set(attempt, i, 0)
              /\ UNCHANGED err
         ELSE /\ attempt' = Set(attempt, i,
                               IF attempt[i] + 1 <= SEND_RETRIES
                                 THEN attempt[i] + 1 ELSE 0)
              /\ pc' = Set(pc, i, IF attempt[i] + 1 <= SEND_RETRIES
                                    THEN "send" ELSE "release")
              /\ err' = Set(err, i, IF attempt[i] + 1 <= SEND_RETRIES
                                      THEN "none" ELSE "send")
              /\ UNCHANGED sends
  /\ event' = NoEvent
  /\ UNCHANGED <<clock, feed, collection, LOCAL_MODE, procStartTime, retries,
                 sent_ids, reserved_ids, startTime, idx, won, holder>>

\* One pass of sendToTelegram's while loop (lines 149-181): a post that
\* Telegram accepts returns; any other outcome counts an attempt, and the
\* loop's exit raises.
SendAttempt(i) ==
  /\ pc[i] = "send"
  /\ \E ok \in BOOLEAN :
       IF ok
         THEN /\ sends' = [sends EXCEPT ![Cur(i)] = IF @ < 2 THEN @ + 1 ELSE @]
              /\ pc' = Set(pc, i, "commit")
              /\ attempt' = Set(attempt, i, 0)
              /\ UNCHANGED err
         ELSE /\ attempt' = Set(attempt, i,
                               IF attempt[i] + 1 < SEND_RETRIES
                                 THEN attempt[i] + 1 ELSE 0)
              /\ pc' = Set(pc, i, IF attempt[i] + 1 < SEND_RETRIES
                                    THEN "send" ELSE "release")
              /\ err' = Set(err, i, IF attempt[i] + 1 < SEND_RETRIES
                                      THEN "none" ELSE "send")
              /\ UNCHANGED sends
  /\ event' = NoEvent
  /\ UNCHANGED <<clock, feed, collection, LOCAL_MODE, procStartTime, retries,
                 sent_ids, reserved_ids, startTime, idx, won, holder>>

\* The commit (lines 389-413): replace_one with sentAt, sent_ids.add,
\* reserved_ids.discard, then the end of the pass.
Commit(i) ==
  /\ pc[i] = "commit"
  /\ LET e == Cur(i)
     IN /\ collection' = [collection EXCEPT ![e] = ReplaceOne(@, clock)]
        /\ reserved_ids' = Set(reserved_ids, i, reserved_ids[i] \ {e})
        /\ won' = Forget({e})
        /\ holder' = Unhold({e})
        /\ event' = Wrote("replace_one", i, e)
        /\ EndOfPass(i, sent_ids[i] \cup {e})
  /\ UNCHANGED <<clock, feed, LOCAL_MODE, procStartTime, retries, attempt, err,
                 sends>>

\* The except branch (lines 414-420): delete_one of the unsent document,
\* reserved_ids.discard (the exception is handled), then the end of the pass.
Release(i) ==
  /\ pc[i] = "release"
  /\ LET e == Cur(i)
     IN /\ collection' = [collection EXCEPT ![e] = DeleteUnsent(@)]
        /\ won' = Forget(Deleted({e}))
        /\ holder' = Unhold(Deleted({e}))
        /\ reserved_ids' = Set(reserved_ids, i, reserved_ids[i] \ {e})
        /\ event' = Wrote("delete_one", i, e)
  /\ err' = Set(err, i, "none")
  /\ EndOfPass(i, sent_ids[i])
  /\ UNCHANGED <<clock, feed, LOCAL_MODE, procStartTime, retries, attempt,
                 sends>>

\* replace_one raises (line 407): the except branch is entered with the
\* document of the id still a claim.
CommitFails(i) ==
  /\ pc[i] = "commit"
  /\ pc' = Set(pc, i, "release")
  /\ err' = Set(err, i, "replace_one")
  /\ event' = NoEvent
  /\ UNCHANGED <<clock, feed, collection, LOCAL_MODE, procStartTime, retries,
                 sent_ids, reserved_ids, startTime, idx, attempt, sends, won,
                 holder>>

\* replace_one and sent_ids.add succeed, then the count query of the print
\* raises (lines 407-410 and 84-85): the except branch is entered before
\* reserved_ids.discard.
CountFails(i) ==
  /\ pc[i] = "commit"
  /\ LET e == Cur(i)
     IN /\ collection' = [collection EXCEPT ![e] = ReplaceOne(@, clock)]
        /\ sent_ids' = Set(sent_ids, i, sent_ids[i] \cup {e})
        /\ won' = Forget({e})
        /\ holder' = Unhold({e})
        /\ event' = Wrote("replace_one", i, e)
  /\ pc' = Set(pc, i, "release")
  /\ err' = Set(err, i, "count_documents")
  /\ UNCHANGED <<clock, feed, LOCAL_MODE, procStartTime, retries, reserved_ids,
                 startTime, idx, attempt, sends>>

\* The except branch of the top-level loop (lines 451-464): count the failure
\* and stop after MAX_FAILURES, else go round the loop again.
HandleError(i) ==
  /\ pc[i] = "error"
  /\ retries' = Set(retries, i, retries[i] + 1)
  /\ IF retries[i] + 1 >= MAX_FAILURES
       THEN Exit(i)
       ELSE /\ pc' = Set(pc, i, "top")
            /\ err' = Set(err, i, "none")
            /\ idx' = Set(idx, i, 0)
            /\ startTime' = Set(startTime, i, 0)
            /\ sent_ids' = Set(sent_ids, i, {})
            /\ event' = NoEvent
            /\ UNCHANGED <<collection, won, holder, reserved_ids, attempt>>
  /\ UNCHANGED <<clock, feed, LOCAL_MODE, procStartTime, sends>>

\* The script is interrupted (KeyboardInterrupt, sys.exit: no Exception, so
\* no handler catches it) and the interpreter exits.
Interrupt(i) ==
  /\ pc[i] \notin {"start", "finished"}
  /\ Exit(i)
  /\ UNCHANGED <<clock, feed, LOCAL_MODE, procStartTime, retries, sends>>

\* The process is killed by a signal Python does not handle (SIGTERM,
\* SIGKILL): the atexit handlers of line 312 do not run.
Kill(i) ==
  /\ pc[i] \notin {"start", "finished"}
  /\ pc' = Set(pc, i, "finished")
  /\ idx' = Set(idx, i, 0)
  /\ startTime' = Set(startTime, i, 0)
  /\ sent_ids' = Set(sent_ids, i, {})
  /\ attempt' = Set(attempt, i, 0)
  /\ err' = Set(err, i, "none")
  /\ event' = NoEvent
  /\ UNCHANGED <<clock, feed, collection, LOCAL_MODE, procStartTime, retries,
                 reserved_ids, sends, won, holder>>

Next ==
  \/ Tick
  \/ \E i \in Inst : Start(i)
  \/ \E i \in Inst : LoopTop(i)
  \/ \E i \in Inst : Fetch(i)
  \/ \E i \in Inst : NextCandidate(i)
  \/ \E i \in Inst : TryClaim(i)
  \/ \E i \in Inst : Render(i)
  \/ \E i \in Inst : SendAttempt(i)
  \/ \E i \in Inst : Commit(i)
  \/ \E i \in Inst : Release(i)
  \/ \E i \in Inst : HandleError(i)

Spec == Init /\ [][Next]_vars

\* The same instances, each of which may also be interrupted at any point.
NextExit ==
  \/ Next
  \/ \E i \in Inst : Interrupt(i)

SpecExit == Init /\ [][NextExit]_vars

\* Instance 1 alone; instance 2 is never launched.
NextBatch ==
  \/ Tick
  \/ Start(1)
  \/ LoopTop(1)
  \/ Fetch(1)
  \/ FetchFails(1)
  \/ NextCandidate(1)
  \/ TryClaim(1)
  \/ Render(1)
  \/ SendAttempt(1)
  \/ Commit(1)
  \/ Release(1)
  \/ HandleError(1)
  \/ Interrupt(1)

SpecBatch == InitBatch /\ [][NextBatch]_vars

\* Instance 1 alone, with store calls that may fail after the send and a
\* process that may be killed.
NextFault ==
  \/ NextBatch
  \/ CommitFails(1)
  \/ CountFails(1)
  \/ Kill(1)

SpecFault == InitBatch /\ [][NextFault]_vars

\* Instance 1 alone and undisturbed, with feed requests that may fail: time
\* advances up to the horizon of the model and every call of the instance
\* returns.
Run(i) ==
  \/ Start(i)
  \/ LoopTop(i)
  \/ Fetch(i)
  \/ FetchFails(i)
  \/ NextCandidate(i)
  \/ TryClaim(i)
  \/ Render(i)
  \/ SendAttempt(i)
  \/ Commit(i)
  \/ Release(i)
  \/ HandleError(i)

NextLive ==
  \/ Tick
  \/ Run(1)

SpecLive ==
  InitBatch /\ [][NextLive]_vars /\ WF_vars(Tick) /\ WF_vars(Run(1))

\* ---- vocabulary of the claims ----

\* The instant a timestamp string denotes.
fromisoformat(s) ==
  s[1] * TicksPerMinute + (IF Len(s) = 2 THEN 0 ELSE s[3])

\* Instance i is between a successful claim and its commit or release.
Delivering(i) == pc[i] \in {"render", "send", "commit", "release"}

\* The latest step was instance i's claiming update_one / its outcome.
Claimed(i) == event.op = "update_one" /\ event.inst = i
ClaimWon(i) == Claimed(i) /\ pc[i] = "render"
ClaimLost(i) == Claimed(i) /\ pc[i] # "render"

\* The instants of one minute, as offsets from its start.
SubMinute == 0..(TicksPerMinute - 1)

\* C1: of the claims of one id that fall within one staleness window of each
\* other, with no release in between, at most one succeeds: two successive
\* successful claims on the same claim document lie more than STALE apart,
\* and a claim made within STALE of the claim that created the document, at
\* whatever tick of the minute of a claiming step, gets the
\* DuplicateKeyError.
C1_OneWinnerPerWindow ==
  /\ \A e \in Ids : Len(won[e]) = 2 => won[e][2] - won[e][1] > STALE
  /\ event.op = "update_one" =>
       \A a, b \in SubMinute :
         LET first == UpdateOne(NoDoc, a).doc
             t == clock + b
         IN t - a <= STALE => UpdateOne(first, t).outcome = "DuplicateKeyError"

\* C1 witness: two instances claimed id 1 at the same instant on an empty
\* store; one won, the other got the DuplicateKeyError.
C1_Witness ==
  \E i, j \in Inst :
    /\ i # j
    /\ ClaimLost(j) /\ event.id = 1
    /\ Delivering(i) /\ Cur(i) = 1
    /\ won[1] = <<clock>>
    /\ collection[1] = ClaimDoc(isoformat(clock))
    /\ event.before = collection

\* C2: every id is sent to the channel at most once, over all instances and
\* run cycles.
C2_SentAtMostOnce == \A e \in Ids : sends[e] <= 1

\* C3: no two instances are at the same time between a successful claim of
\* the same id and its commit or release.
C3_DeliveryMutex ==
  \A i, j \in Inst :
    (i # j /\ Delivering(i) /\ Delivering(j)) => Cur(i) # Cur(j)

\* C4: a terminal record is never deleted or changed again, by any step.
C4_TerminalImmutable ==
  [][\A e \in Ids : IsTerminal(collection[e]) => collection'[e] = collection[e]]_vars

\* C5: a claim on an id whose record has sentAt never succeeds and leaves
\* the record as it was, whether the record has no reserved_at, a live one
\* or a stale one.  The second conjunct applies the update_one, at every
\* claiming step, to the terminal records of each of the three kinds.
TerminalDocs ==
  {[exists |-> TRUE, reserved_at |-> r, sentAt |-> isoformat(t)] :
     r \in {Missing, isoformat(clock), isoformat(clock - STALE - 1)},
     t \in {0, clock}}
C5_TerminalNeverClaimed ==
  /\ \A i \in Inst :
       (Claimed(i) /\ IsTerminal(event.before[event.id]))
         => /\ ~Delivering(i)
            /\ event.id \notin reserved_ids[i]
            /\ collection = event.before
  /\ event.op = "update_one" =>
       \A d \in TerminalDocs :
         /\ UpdateOne(d, clock).outcome = "DuplicateKeyError"
         /\ UpdateOne(d, clock).doc = d

\* C5 witness: an instance passed the re-check, another instance committed
\* the id, and the first instance's claim then failed.
C5_Witness ==
  \E i \in Inst :
    /\ ClaimLost(i)
    /\ IsTerminal(event.before[event.id])
    /\ err[i] = "DuplicateKeyError"

\* C6: a claim document whose reserved_at is more than 3 minutes old, and
\* which its claimant never released, is claimed by the next update_one of
\* any instance, which sets reserved_at to its own now; while the document
\* is younger than 3 minutes that update_one does not succeed.  The second
\* conjunct says the same of the filter, at every claiming step, for the
\* claims that could be made at every tick of that minute.
C6_StaleClaimRecovery ==
  /\ \A i \in Inst :
       LET d == event.before[event.id]
           age == clock - fromisoformat(d.reserved_at)
       IN (Claimed(i) /\ d.exists /\ ~IsTerminal(d) /\ d.reserved_at # Missing)
            => /\ age > STALE =>
                    /\ ClaimWon(i)
                    /\ event.id \in reserved_ids[i]
                    /\ collection[event.id] = ClaimDoc(isoformat(clock))
               /\ age < STALE =>
                    /\ ClaimLost(i)
                    /\ collection = event.before
  /\ event.op = "update_one" =>
       \A a, b \in SubMinute :
         LET held == ClaimDoc(isoformat(a))
             t == clock + b
         IN /\ t - a > STALE =>
                 UpdateOne(held, t) =
                   [outcome |-> "matched", doc |-> ClaimDoc(isoformat(t))]
            /\ t - a < STALE =>
                 UpdateOne(held, t) = [outcome |-> "DuplicateKeyError", doc |-> held]

\* C6 witness: an instance has just taken over the claim of another
\* instance, which is still delivering the id and never released it.
C6_Witness ==
  \E i, j \in Inst :
    /\ i # j
    /\ ClaimWon(i)
    /\ Delivering(j) /\ Cur(j) = event.id
    /\ won[event.id] = <<fromisoformat(event.before[event.id].reserved_at), clock>>
    /\ clock - won[event.id][1] > STALE

\* C7: a claim that fails because another instance holds the id raises no
\* error: the instance stays in its run cycle and goes on.
C7_LostClaimIsSkipped ==
  \A i \in Inst :
    ClaimLost(i) => (err[i] = "none" /\ pc[i] \in {"iter", "top"})

\* C8: after the release that follows a failed render or delivery no record
\* of the id is left (so none with sentAt), the id is out of reserved_ids,
\* and a claim of the id would succeed at once.
C8_ReleaseFreesTheId ==
  (event.op = "delete_one")
    => /\ ~collection[event.id].exists
       /\ event.id \notin reserved_ids[event.inst]
       /\ UpdateOne(collection[event.id], clock).outcome # "DuplicateKeyError"

\* C9: the failure of one candidate's render or delivery does not end the
\* run cycle and is not counted as a failed cycle: after the release the
\* loop goes on with the next candidate, unless the time budget is spent.
C9_FailureDoesNotAbort ==
  [][\A i \in Inst :
       (pc[i] = "release" /\ event'.op = "delete_one" /\ event'.inst = i)
         => /\ retries'[i] = retries[i]
            /\ err'[i] = "none"
            /\ IF TimeUp(i, startTime[i])
                 THEN pc'[i] = "top"
                 ELSE pc'[i] = "iter" /\ idx'[i] = idx[i] + 1]_vars

\* C9 witness: in one run cycle the first candidate failed and was released,
\* and the instance is claiming the second one.
C9_Witness ==
  /\ pc[1] = "claim"
  /\ Cur(1) = 2
  /\ 1 \notin sent_ids[1]
  /\ ~collection[1].exists
  /\ retries[1] = 0

\* C10: a release (the delete_one of the failure path, or the exit cleanup)
\* of an id whose record has sentAt leaves the whole collection as it was.
C10_ReleaseSparesTerminal ==
  (event.op \in {"delete_one", "cleanup"} /\ IsTerminal(event.before[event.id]))
    => collection = event.before

\* C10 witness: an instance whose claim had gone stale failed and released
\* after another instance had committed the id.
C10_Witness ==
  /\ event.op = "delete_one"
  /\ IsTerminal(event.before[event.id])

\* The exit cleanup meets a terminal record as well.
C10_WitnessCleanup ==
  /\ event.op = "cleanup"
  /\ IsTerminal(event.before[event.id])

\* Instance i holds the claim on id e: the claim document of e is there and
\* its latest successful update_one was i's.
Holds(i, e) ==
  holder[e] = i /\ collection[e].exists /\ ~IsTerminal(collection[e])

\* C11: when an instance has exited, or its run cycle has ended with an
\* uncaught error, no claim document that the instance holds is left in the
\* store.
C11_ExitReleasesClaims ==
  \A i \in Inst :
    pc[i] \in {"finished", "error"} => \A e \in Ids : ~Holds(i, e)

\* C12: a run cycle that returns from main() without an error resets the
\* count of failed cycles, so only consecutive failures add up to the limit.
C12_SuccessResetsFailures ==
  [][\A i \in Inst :
       (pc[i] \in {"iter", "claim", "commit", "release"} /\ pc'[i] = "top")
         => retries'[i] = 0]_vars

\* C13: in time-boxed mode the budget is checked between any two candidates:
\* the loop never moves on to the next candidate, whatever became of the
\* current one, once MAX_RUN_TIME has elapsed since the loop started.
C13_BudgetCheckedBetweenCandidates ==
  [][\A i \in Inst :
       (pc[i] \in {"iter", "claim", "commit", "release"}
          /\ idx'[i] = idx[i] + 1)
         => ~TimeUp(i, startTime[i])]_vars

\* C14: a time-boxed instance that entered the top-level loop eventually
\* finishes, and no run cycle starts once MAX_RUN_TIME has elapsed since the
\* process started; in local mode the elapsed time neither ends a run cycle
\* before the end of the feed nor the top-level loop, which the instance
\* leaves only with MAX_FAILURES failed cycles.
C14_TimeBoxTerminates ==
  /\ \A i \in Inst :
       (~LOCAL_MODE[i] /\ pc[i] = "top") ~> (pc[i] = "finished")
  /\ [][\A i \in Inst :
          /\ (pc[i] = "top" /\ pc'[i] = "fetch")
               => (LOCAL_MODE[i] \/ clock - procStartTime[i] < MAX_RUN_TIME)
          /\ (LOCAL_MODE[i] /\ pc[i] \in {"iter", "claim", "commit", "release"}
                /\ pc'[i] = "top")
               => (pc[i] = "iter" /\ idx[i] > Len(feed))
          /\ (LOCAL_MODE[i] /\ pc[i] # "finished" /\ pc'[i] = "finished")
               => retries'[i] >= MAX_FAILURES]_vars

\* C14 witness: a time-boxed instance has finished because the budget was
\* spent, not because of failures.
C14_Witness ==
  \E i \in Inst :
    /\ ~LOCAL_MODE[i]
    /\ pc[i] = "finished"
    /\ retries[i] < MAX_FAILURES
    /\ clock - procStartTime[i] >= MAX_RUN_TIME

\* C15: after a commit the id has a terminal record (sentAt, no
\* reserved_at) and the other records are as before; committing again with
\* the same data, or committing that data on an empty store, gives the same
\* record, and the re-check finds the id delivered.
C15_CommitIdempotent ==
  (event.op = "replace_one") =>
    LET e == event.id
        d == collection[e]
        t == fromisoformat(d.sentAt)
    IN /\ d.exists /\ d.sentAt # Missing /\ d.reserved_at = Missing
       /\ ReplaceOne(d, t) = d
       /\ ReplaceOne(NoDoc, t) = d
       /\ ReplaceOne(event.before[e], t) = d
       /\ FindSent(collection, e)
       /\ LoadSentIds(collection) = LoadSentIds(event.before) \cup {e}
       /\ \A o \in Ids \ {e} : collection[o] = event.before[o]

\* C15 witness: an id that already had a terminal record was committed
\* again.
C15_Witness ==
  /\ event.op = "replace_one"
  /\ IsTerminal(event.before[event.id])
  /\ IsTerminal(collection[event.id])

\* C16: the sent_ids a run cycle loads are exactly the ids that have a
\* record with sentAt at that moment, never an id whose record is only a
\* claim; and those are the committed ids: a record gets its sentAt by a
\* commit of its id and by nothing else, and keeps a sentAt ever after.
C16_KnownSetIsTerminalSet ==
  [][/\ \A i \in Inst :
          (pc[i] = "top" /\ pc'[i] = "fetch")
            => sent_ids'[i] =
                 {e \in Ids : collection[e].exists /\ collection[e].sentAt # Missing}
     /\ \A e \in Ids :
          /\ (event'.op = "replace_one" /\ event'.id = e)
               => IsTerminal(collection'[e])
          /\ IsTerminal(collection[e]) => IsTerminal(collection'[e])
          /\ (~IsTerminal(collection[e]) /\ IsTerminal(collection'[e]))
               => (event'.op = "replace_one" /\ event'.id = e)]_vars

\* C16 witness: a run cycle has just loaded the one committed id, which
\* another instance sent.
C16_Witness ==
  \E i \in Inst :
    /\ pc[i] = "fetch"
    /\ sent_ids[i] = {1}
    /\ IsTerminal(collection[1])
    /\ ~IsTerminal(collection[2])
    /\ retries[i] = 0

\* A run cycle loads its sent_ids while the record of id 1 is only a claim.
C16_WitnessClaimOnly ==
  \E i \in Inst :
    /\ pc[i] = "fetch"
    /\ sent_ids[i] = {}
    /\ collection[1].exists /\ ~IsTerminal(collection[1])

\* C17: a send attempt is made only after fewer than 5 failed attempts for
\* the event; the delivery is reported done only by an attempt that
\* Telegram accepted, and that attempt is the last; a failed attempt is
\* counted, and the fifth failure raises the error of the event.
C17_SendAtMostFiveAttempts ==
  [][\A i \in Inst :
       (pc[i] = "send" /\ pc'[i] \in {"send", "commit", "release"}
          /\ <<pc[i], attempt[i], sends>> # <<pc'[i], attempt'[i], sends'>>)
         => /\ attempt[i] < 5
            /\ pc'[i] = "commit" =>
                 /\ sends'[Cur(i)] = sends[Cur(i)] + 1
                 /\ err'[i] = "none"
            /\ pc'[i] = "send" =>
                 /\ attempt'[i] = attempt[i] + 1
                 /\ sends' = sends
            /\ pc'[i] = "release" =>
                 /\ attempt[i] = 4
                 /\ sends' = sends
                 /\ err'[i] = "send"]_vars

\* C17 witness: the fifth attempt for an event failed and the error of the
\* event was raised.
C17_Witness ==
  \E i \in Inst :
    /\ pc[i] = "release"
    /\ err[i] = "send"
    /\ sends[Cur(i)] = 0

\* C18: when the re-check of a candidate that is not in sent_ids meets a
\* record with sentAt, the instance goes on to the next candidate without
\* a claim, the store is as it was, and the id is in sent_ids.
C18_RecheckSkipsDelivered ==
  \A i \in Inst :
    (event.op = "find_one" /\ event.inst = i
       /\ IsTerminal(event.before[event.id]))
      => /\ pc[i] = "iter"
         /\ feed[idx[i] - 1].id = event.id
         /\ collection = event.before
         /\ event.id \in sent_ids[i]
         /\ event.id \notin reserved_ids[i]
         /\ holder[event.id] # i

\* C18 witness: an instance whose snapshot did not have the id met, at the
\* re-check, the record another instance had committed since.
C18_Witness ==
  \E i, j \in Inst :
    /\ i # j
    /\ event.op = "find_one" /\ event.inst = i
    /\ IsTerminal(collection[event.id])
    /\ event.id \in sent_ids[i]
    /\ pc[j] \in {"iter", "top"}
    /\ sends[event.id] = 1

\* C19: a release by an instance (the delete_one of the failure path or the
\* exit cleanup) leaves alone the claim document that another instance
\* holds and that is not stale.
C19_ReleaseOnlyOwnClaim ==
  [][\A i, j \in Inst : \A e \in Ids :
       (/\ event'.op \in {"delete_one", "cleanup"} /\ event'.inst = i
        /\ j # i
        /\ Holds(j, e)
        /\ clock - fromisoformat(collection[e].reserved_at) <= STALE)
         => collection'[e] = collection[e]]_vars

\* C20: the release of an instance that has sent the notification of the
\* id (it is in the except branch because the commit's replace_one or the
\* count query raised) leaves a record of the id in the store.
C20_NoReleaseAfterSend ==
  [][\A i \in Inst :
       (/\ pc[i] = "release"
        /\ err[i] \in {"replace_one", "count_documents"}
        /\ event'.op = "delete_one" /\ event'.inst = i)
         => collection'[Cur(i)].exists]_vars

====
